---- MODULE Spec2Model ----
(***************************************************************************)
(* Trade Copier API (src/server.js): the Master posts signals, each Slave   *)
(* polls the signals it has not yet confirmed and confirms them one by one. *)
(* Node runs every request handler to completion on one thread, so each     *)
(* handler is one atomic action.                                            *)
(***************************************************************************)
EXTENDS Integers, Sequences, FiniteSets, TLC

VARIABLES signals, executedBySlave, nextSignalId, now, req, res, confirmed, sess,
          executions

\* confirmed is the history of the confirmations the server has answered with
\* success: the pairs <<slaveId, signal id>>
serverVars == <<signals, executedBySlave, nextSignalId, confirmed>>
clientVars == <<sess, executions>>
vars ==
  <<signals, executedBySlave, nextSignalId, now, req, res, confirmed, sess, executions>>

(***************************************************************************)
(* Bounds of the model.                                                     *)
(***************************************************************************)
\* longest Log explored
MaxLog == 2
\* most executions of one signal id by one slave that are counted
MaxExec == 2

(***************************************************************************)
(* JavaScript values.  A string is the sequence of its characters; a JSON   *)
(* value is undefined, a number or a string.                                *)
(***************************************************************************)
Undef == [t |-> "undef", n |-> 0, s |-> << >>]
Num(k) == [t |-> "num", n |-> k, s |-> << >>]
Str(x) == [t |-> "str", n |-> 0, s |-> x]
NaN == [t |-> "nan", n |-> 0, s |-> << >>]

\* !v
Falsy(v) ==
  \/ v.t = "undef"
  \/ v.t = "nan"
  \/ v.t = "num" /\ v.n = 0
  \/ v.t = "str" /\ v.s = << >>

DigitChars == <<"0", "1", "2", "3", "4", "5", "6", "7", "8", "9">>

RECURSIVE NumStr(_)
\* decimal digits of a natural number
NumStr(k) ==
  IF k < 10 THEN <<DigitChars[k + 1]>>
  ELSE NumStr(k \div 10) \o <<DigitChars[(k % 10) + 1]>>

IsDigit(ch) == \E i \in 1..10 : DigitChars[i] = ch

DigitVal(ch) == (CHOOSE i \in 1..10 : DigitChars[i] = ch) - 1

RECURSIVE DigitsVal(_)
DigitsVal(x) ==
  IF x = << >> THEN 0
  ELSE 10 * DigitsVal(SubSeq(x, 1, Len(x) - 1)) + DigitVal(x[Len(x)])

\* `${v}` and String(v)
ToStr(v) ==
  CASE v.t = "str" -> v.s
    [] v.t = "num" -> NumStr(v.n)
    [] v.t = "nan" -> <<"N", "a", "N">>
    [] OTHER -> <<"u", "n", "d", "e", "f", "i", "n", "e", "d">>

\* Number(v)
ToNumber(v) ==
  CASE v.t = "num" -> v
    [] v.t = "str" ->
         IF v.s = << >> THEN Num(0)
         ELSE IF \A i \in 1..Len(v.s) : IsDigit(v.s[i]) THEN Num(DigitsVal(v.s))
         ELSE NaN
    [] OTHER -> NaN

\* parseFloat(v) || dflt, in hundredths
ParseFloatOr(v, dflt) ==
  LET f == IF v.t = "num" THEN v
           ELSE IF v.t = "str" /\ v.s # << >> /\ \A i \in 1..Len(v.s) : IsDigit(v.s[i])
                THEN Num(100 * DigitsVal(v.s))
           ELSE NaN
  IN IF Falsy(f) THEN dflt ELSE f.n

\* 0.01 lot, in hundredths
LotDefault == 1
PriceDefault == 0

(***************************************************************************)
(* The inputs.                                                              *)
(***************************************************************************)
M1 == <<"M", "1">>
EURUSD == <<"E", "U", "R", "U", "S", "D">>
OPEN == <<"O", "P", "E", "N">>
CLOSE == <<"C", "L", "O", "S", "E">>
MODIFY == <<"M", "O", "D", "I", "F", "Y">>
HOLD == <<"H", "O", "L", "D">>
BUY == <<"B", "U", "Y">>
Actions == {OPEN, CLOSE, MODIFY}

SlaveIds == {"slaveA", "slaveB"}
\* the slaves whose polling loops are modelled step by step, and their loops
PollingSlaves == {"slaveA"}
Sessions == {1, 2}

NoBody ==
  [master_id |-> Undef, ticket |-> Undef, symbol |-> Undef, type |-> Undef,
   lot |-> Undef, open_price |-> Undef, sl |-> Undef, tp |-> Undef,
   action |-> Undef, signal_id |-> Undef]

SignalBody(m, t, s, a) ==
  [NoBody EXCEPT !.master_id = m, !.ticket = t, !.symbol = s, !.action = a]

ExecutedBody(id) == [NoBody EXCEPT !.signal_id = id]

\* bodies of POST /signal that pass the validation
ValidBodies ==
  { SignalBody(Str(M1), Num(t), Str(EURUSD), Str(OPEN)) : t \in {100, 101} }

\* two bodies that do not
RejectedBodies ==
  { SignalBody(Str(M1), Num(100), Undef, Str(CLOSE)),
    SignalBody(Str(M1), Num(100), Str(EURUSD), Str(HOLD)) }

\* every combination of a present, an absent and a malformed field
AnyBodies ==
  { SignalBody(m, t, s, a) :
      m \in {Undef, Str(M1)},
      t \in {Undef, Num(100)},
      s \in {Undef, Str(<< >>), Str(EURUSD)},
      a \in {Undef, Str(OPEN), Str(CLOSE), Str(MODIFY), Str(HOLD)} }

NoReq == [op |-> "none", slaveId |-> "", body |-> NoBody]
NoRes ==
  [status |-> 0, success |-> FALSE, signal_id |-> << >>, signals |-> << >>,
   count |-> 0, error |-> ""]

Json(status, success) == [NoRes EXCEPT !.status = status, !.success = success]

(***************************************************************************)
(* Utilities of the server.                                                 *)
(***************************************************************************)
Underscore == <<"_">>

\* `sig_${signal.master_id}_${signal.ticket}_${signal.action}_${Date.now()}`
generateSignalId(signal, t) ==
  <<"s", "i", "g">> \o Underscore \o ToStr(signal.master_id) \o Underscore
    \o ToStr(signal.ticket) \o Underscore \o ToStr(signal.action) \o Underscore
    \o NumStr(t)

\* Map.has / Map.set
MapHas(m, k) == k \in DOMAIN m
MapSet(m, k, v) == [x \in (DOMAIN m) \cup {k} |-> IF x = k THEN v ELSE m[x]]

\* markAsExecuted without its has() test: the slave's Set is made anew each time
markAsExecutedFresh(executed, slaveId, signalId) ==
  MapSet(executed, slaveId, {signalId})

\* markAsExecuted that takes a second confirmation for a withdrawal
markAsExecutedToggle(executed, slaveId, signalId) ==
  IF MapHas(executed, slaveId) /\ signalId \in executed[slaveId]
  THEN MapSet(executed, slaveId, executed[slaveId] \ {signalId})
  ELSE MapSet(executed, slaveId,
              (IF MapHas(executed, slaveId) THEN executed[slaveId] ELSE {})
                \cup {signalId})

\* markAsExecuted with one Set for all the slaves
markAsExecutedShared(executed, slaveId, signalId) ==
  [x \in (DOMAIN executed) \cup {slaveId} |->
     (UNION { executed[y] : y \in DOMAIN executed }) \cup {signalId}]

\* the Map after markAsExecuted(slaveId, signalId)
markAsExecuted(executed, slaveId, signalId) ==
  LET m1 == IF ~MapHas(executed, slaveId) THEN MapSet(executed, slaveId, {})
            ELSE executed
  IN MapSet(m1, slaveId, m1[slaveId] \cup {signalId})

\* wasExecuted that looks the id up in the Sets of all the slaves
wasExecutedByAnyone(executed, slaveId, signalId) ==
  \E c \in DOMAIN executed : signalId \in executed[c]

wasExecuted(executed, slaveId, signalId) ==
  MapHas(executed, slaveId) /\ signalId \in executed[slaveId]

\* Array.prototype.filter: the elements that pass, in the order of the array
RECURSIVE Filter(_, _, _)
Filter(log, executed, slaveId) ==
  IF log = << >> THEN << >>
  ELSE LET rest == Filter(Tail(log), executed, slaveId)
       IN IF ~wasExecuted(executed, slaveId, Head(log).id)
          THEN <<Head(log)>> \o rest
          ELSE rest

\* getPendingSignals without its filter
getPendingSignalsUnfiltered(log, executed, slaveId) == log

RECURSIVE Reverse(_)
Reverse(x) == IF x = << >> THEN << >> ELSE Reverse(Tail(x)) \o <<Head(x)>>

\* getPendingSignals that collects the pending signals newest first
getPendingSignalsNewestFirst(log, executed, slaveId) ==
  Reverse(Filter(log, executed, slaveId))

getPendingSignals(log, executed, slaveId) == Filter(log, executed, slaveId)

(***************************************************************************)
(* POST /signal                                                             *)
(***************************************************************************)
\* the first validation with the symbol required for OPEN and MODIFY only
MissingFieldUnlessClose(body) ==
  \/ Falsy(body.master_id) \/ Falsy(body.ticket) \/ Falsy(body.action)
  \/ Falsy(body.symbol) /\ body.action # Str(CLOSE)

MissingField(body) ==
  Falsy(body.master_id) \/ Falsy(body.ticket) \/ Falsy(body.symbol) \/ Falsy(body.action)

\* the second validation left out
KnownActionAlways(body) == body.action.t = "str"

\* ['OPEN', 'CLOSE', 'MODIFY'].includes(action)
KnownAction(body) == body.action.t = "str" /\ body.action.s \in Actions

NewSignal(body, t) ==
  [id |-> generateSignalId(body, t),
   master_id |-> ToStr(body.master_id),
   ticket |-> ToNumber(body.ticket),
   symbol |-> ToStr(body.symbol),
   type |-> IF Falsy(body.type) THEN BUY ELSE ToStr(body.type),
   lot |-> ParseFloatOr(body.lot, LotDefault),
   open_price |-> ParseFloatOr(body.open_price, PriceDefault),
   sl |-> ParseFloatOr(body.sl, PriceDefault),
   tp |-> ParseFloatOr(body.tp, PriceDefault),
   action |-> body.action.s,
   created_at |-> t]

\* a push that takes a signal of the same producer in the same millisecond
\* for a repetition and drops it
PushUnlessSameTick(log, signal) ==
  IF log # << >> /\ log[Len(log)].master_id = signal.master_id
       /\ log[Len(log)].created_at = signal.created_at
  THEN log
  ELSE Append(log, signal)

\* signals.unshift(signal)
PushFront(log, signal) == <<signal>> \o log

\* signals.push(signal)
Push(log, signal) == Append(log, signal)

HandlePostSignal(body) ==
  /\ req' = [op |-> "POST /signal", slaveId |-> "", body |-> body]
  /\ IF MissingField(body)
     THEN /\ res' = [Json(400, FALSE) EXCEPT !.error = "required"]
          /\ UNCHANGED serverVars
     ELSE IF ~KnownAction(body)
     THEN /\ res' = [Json(400, FALSE) EXCEPT !.error = "action"]
          /\ UNCHANGED serverVars
     ELSE /\ Len(signals) < MaxLog
          /\ signals' = Push(signals, NewSignal(body, now))
          /\ res' = [Json(200, TRUE) EXCEPT !.signal_id = generateSignalId(body, now)]
          /\ UNCHANGED <<executedBySlave, nextSignalId, confirmed>>
  /\ UNCHANGED now

(***************************************************************************)
(* GET /signal/:slaveId                                                     *)
(***************************************************************************)
RECURSIVE MarkAll(_, _, _)
MarkAll(executed, slaveId, log) ==
  IF log = << >> THEN executed
  ELSE MarkAll(markAsExecuted(executed, slaveId, Head(log).id), slaveId, Tail(log))

\* the handler that takes what it returns for executed (the "consumo" of the
\* comment of lines 156-158)
HandleGetSignalConsuming(slaveId) ==
  /\ req' = [op |-> "GET /signal/:slaveId", slaveId |-> slaveId, body |-> NoBody]
  /\ IF slaveId = ""
     THEN /\ res' = [Json(400, FALSE) EXCEPT !.error = "slaveId"]
          /\ UNCHANGED executedBySlave
     ELSE LET pending == getPendingSignals(signals, executedBySlave, slaveId)
          IN /\ res' = [Json(200, TRUE) EXCEPT !.signals = pending, !.count = Len(pending)]
             /\ executedBySlave' = MarkAll(executedBySlave, slaveId, pending)
  /\ UNCHANGED <<signals, nextSignalId, confirmed, now>>

HandleGetSignal(slaveId) ==
  /\ req' = [op |-> "GET /signal/:slaveId", slaveId |-> slaveId, body |-> NoBody]
  /\ IF slaveId = ""
     THEN res' = [Json(400, FALSE) EXCEPT !.error = "slaveId"]
     ELSE LET pending == getPendingSignals(signals, executedBySlave, slaveId)
          IN res' = [Json(200, TRUE) EXCEPT !.signals = pending, !.count = Len(pending)]
  /\ UNCHANGED <<serverVars, now>>

(***************************************************************************)
(* POST /signal/:slaveId/executed                                           *)
(***************************************************************************)
\* the handler without its validation
HandlePostExecutedUnchecked(slaveId, body) ==
  /\ req' = [op |-> "POST /signal/:slaveId/executed", slaveId |-> slaveId, body |-> body]
  /\ executedBySlave' = markAsExecuted(executedBySlave, slaveId, body.signal_id.s)
  /\ res' = Json(200, TRUE)
  /\ confirmed' = confirmed \cup {<<slaveId, body.signal_id.s>>}
  /\ UNCHANGED <<signals, nextSignalId, now>>

\* the handler with the signal id looked up in the Log before it is recorded
HandlePostExecutedKnownOnly(slaveId, body) ==
  /\ req' = [op |-> "POST /signal/:slaveId/executed", slaveId |-> slaveId, body |-> body]
  /\ IF slaveId = "" \/ Falsy(body.signal_id)
     THEN /\ res' = [Json(400, FALSE) EXCEPT !.error = "slaveId signal_id"]
          /\ UNCHANGED serverVars
     ELSE IF \A i \in 1..Len(signals) : signals[i].id # body.signal_id.s
     THEN /\ res' = [Json(404, FALSE) EXCEPT !.error = "signal_id"]
          /\ UNCHANGED serverVars
     ELSE /\ executedBySlave' = markAsExecuted(executedBySlave, slaveId, body.signal_id.s)
          /\ res' = Json(200, TRUE)
          /\ confirmed' = confirmed \cup {<<slaveId, body.signal_id.s>>}
          /\ UNCHANGED <<signals, nextSignalId>>
  /\ UNCHANGED now

HandlePostExecuted(slaveId, body) ==
  /\ req' = [op |-> "POST /signal/:slaveId/executed", slaveId |-> slaveId, body |-> body]
  /\ IF slaveId = "" \/ Falsy(body.signal_id)
     THEN /\ res' = [Json(400, FALSE) EXCEPT !.error = "slaveId signal_id"]
          /\ UNCHANGED serverVars
     ELSE /\ executedBySlave' = markAsExecuted(executedBySlave, slaveId, body.signal_id.s)
          /\ res' = Json(200, TRUE)
          /\ confirmed' = confirmed \cup {<<slaveId, body.signal_id.s>>}
          /\ UNCHANGED <<signals, nextSignalId>>
  /\ UNCHANGED now

(***************************************************************************)
(* GET /health                                                              *)
(***************************************************************************)
HandleGetHealth ==
  /\ req' = [op |-> "GET /health", slaveId |-> "", body |-> NoBody]
  /\ res' = [NoRes EXCEPT !.status = 200, !.error = "ok"]
  /\ UNCHANGED <<serverVars, now>>

(***************************************************************************)
(* The state after the module is loaded (lines 23, 26 and 29).             *)
(***************************************************************************)
EmptyMap == [x \in {} |-> {}]
IdleSession == [pc |-> "idle", todo |-> << >>]

Init ==
  /\ signals = << >>
  /\ executedBySlave = EmptyMap
  /\ nextSignalId = 1
  /\ now = 0
  /\ req = NoReq
  /\ confirmed = {}
  /\ res = NoRes
  /\ sess = [c \in SlaveIds |-> [k \in Sessions |-> IdleSession]]
  /\ executions = [c \in SlaveIds |-> EmptyMap]

(***************************************************************************)
(* The requests of arbitrary producers and slaves.                          *)
(***************************************************************************)
\* an id a slave may confirm before any signal carries it
EarlyId == generateSignalId(SignalBody(Str(M1), Num(100), Str(EURUSD), Str(OPEN)), 1)

LogIds(log) == { log[i].id : i \in 1..Len(log) }

SignalIdInputs == {Undef, Str(<< >>), Str(EarlyId)} \cup { Str(id) : id \in LogIds(signals) }

PostSignal ==
  \E body \in ValidBodies \cup RejectedBodies :
    HandlePostSignal(body) /\ UNCHANGED clientVars

GetSignal ==
  \E slaveId \in SlaveIds : HandleGetSignal(slaveId) /\ UNCHANGED clientVars

PostExecuted ==
  \E slaveId \in SlaveIds, id \in SignalIdInputs :
    HandlePostExecuted(slaveId, ExecutedBody(id)) /\ UNCHANGED clientVars

GetHealth == HandleGetHealth /\ UNCHANGED clientVars

\* The clock moves on to the next millisecond in which a request arrives.
\* Milliseconds in which no signal is stamped are skipped: the handlers use
\* a timestamp only inside an id, which is only compared for equality.
Tick ==
  /\ \E i \in 1..Len(signals) : signals[i].created_at = now
  /\ now' = now + 1
  /\ UNCHANGED <<serverVars, req, res, clientVars>>

Next == PostSignal \/ GetSignal \/ PostExecuted \/ GetHealth \/ Tick

Spec == Init /\ [][Next]_vars

(***************************************************************************)
(* The validation of POST /signal, on every combination of fields, and of   *)
(* POST /signal/:slaveId/executed, within one millisecond.                  *)
(***************************************************************************)
PostAnySignal ==
  \E body \in AnyBodies : HandlePostSignal(body) /\ UNCHANGED clientVars

PostExecutedLogged ==
  \E slaveId \in SlaveIds, id \in LogIds(signals) :
    HandlePostExecuted(slaveId, ExecutedBody(Str(id))) /\ UNCHANGED clientVars

\* confirmations without a slave id or without a signal id, as the handler
\* may be called with them
PostExecutedMalformed ==
  \E slaveId \in SlaveIds \cup {""},
     id \in {Undef, Str(<< >>)} \cup { Str(x) : x \in LogIds(signals) } :
    /\ slaveId = "" \/ Falsy(id)
    /\ HandlePostExecuted(slaveId, ExecutedBody(id))
    /\ UNCHANGED clientVars

NextValidation == PostAnySignal \/ PostExecutedLogged \/ PostExecutedMalformed

SpecValidation == Init /\ [][NextValidation]_vars

(***************************************************************************)
(* The slaves.  A slave polls, executes every signal the poll returned and  *)
(* confirms each one after executing it.  It may run several such loops at  *)
(* once (Sessions) and may crash at any point of a loop, losing what the    *)
(* loop held.                                                               *)
(***************************************************************************)
Executed(slaveId, id) ==
  IF MapHas(executions[slaveId], id) THEN executions[slaveId][id] ELSE 0

ClientPoll(slaveId, k) ==
  /\ sess[slaveId][k].pc = "idle"
  /\ HandleGetSignal(slaveId)
  /\ sess' = [sess EXCEPT ![slaveId][k] =
                [pc |-> IF res'.signals = << >> THEN "idle" ELSE "polled",
                 todo |-> res'.signals]]
  /\ UNCHANGED executions

ClientExecute(slaveId, k) ==
  LET id == Head(sess[slaveId][k].todo).id IN
  /\ sess[slaveId][k].pc = "polled"
  /\ Executed(slaveId, id) < MaxExec
  /\ executions' = [executions EXCEPT ![slaveId] =
                      MapSet(executions[slaveId], id, Executed(slaveId, id) + 1)]
  /\ sess' = [sess EXCEPT ![slaveId][k].pc = "executed"]
  /\ UNCHANGED <<serverVars, now, req, res>>

ClientConfirm(slaveId, k) ==
  LET todo == sess[slaveId][k].todo IN
  /\ sess[slaveId][k].pc = "executed"
  /\ HandlePostExecuted(slaveId, ExecutedBody(Str(Head(todo).id)))
  /\ sess' = [sess EXCEPT ![slaveId][k] =
                [pc |-> IF Tail(todo) = << >> THEN "idle" ELSE "polled",
                 todo |-> Tail(todo)]]
  /\ UNCHANGED executions

ClientCrash(slaveId, k) ==
  /\ sess[slaveId][k].pc # "idle"
  /\ sess' = [sess EXCEPT ![slaveId][k] = IdleSession]
  /\ UNCHANGED <<serverVars, now, req, res, executions>>

PostValidSignal ==
  \E body \in ValidBodies : HandlePostSignal(body) /\ UNCHANGED clientVars

Poll == \E slaveId \in PollingSlaves, k \in Sessions : ClientPoll(slaveId, k)
Execute == \E slaveId \in PollingSlaves, k \in Sessions : ClientExecute(slaveId, k)
Confirm == \E slaveId \in PollingSlaves, k \in Sessions : ClientConfirm(slaveId, k)
Crash == \E slaveId \in PollingSlaves, k \in Sessions : ClientCrash(slaveId, k)

NextClient == PostValidSignal \/ Tick \/ Poll \/ Execute \/ Confirm \/ Crash

SpecClient == Init /\ [][NextClient]_vars

(***************************************************************************)
(* The slaves that never crash: every loop, once it has polled, executes    *)
(* and confirms each signal it holds, and polls again.  A request a slave   *)
(* has sent is handled (the handlers are short and synchronous), hence the  *)
(* weak fairness of the steps of the loops.                                 *)
(***************************************************************************)
NextDrain == PostValidSignal \/ Tick \/ Poll \/ Execute \/ Confirm

SpecDrain ==
  /\ Init /\ [][NextDrain]_vars
  /\ WF_vars(Poll) /\ WF_vars(Execute) /\ WF_vars(Confirm)

(***************************************************************************)
(* Properties.                                                              *)
(***************************************************************************)
OpSignal == "POST /signal"
OpPending == "GET /signal/:slaveId"
OpExecuted == "POST /signal/:slaveId/executed"

pendingFor(slaveId) == getPendingSignals(signals, executedBySlave, slaveId)

Ids(log) == [i \in 1..Len(log) |-> log[i].id]

\* how many elements of the sequence x equal v
RECURSIVE Count(_, _)
Count(x, v) ==
  IF x = << >> THEN 0
  ELSE (IF Head(x) = v THEN 1 ELSE 0) + Count(Tail(x), v)

\* a is b with some elements left out
RECURSIVE IsSubseq(_, _)
IsSubseq(a, b) ==
  IF a = << >> THEN TRUE
  ELSE IF b = << >> THEN FALSE
  ELSE IF Head(a) = Head(b) THEN IsSubseq(Tail(a), Tail(b))
  ELSE IsSubseq(a, Tail(b))

IsPrefix(a, b) == Len(a) <= Len(b) /\ SubSeq(b, 1, Len(a)) = a

AckSet(executed, slaveId) == IF MapHas(executed, slaveId) THEN executed[slaveId] ELSE {}

\* C1: no slave executes a signal more than once, whatever the interleaving
\* of submissions, polls of its concurrent loops, crashes and re-polls.
C1_AtMostOnce ==
  \A slaveId \in SlaveIds : \A id \in DOMAIN executions[slaveId] :
    executions[slaveId][id] <= 1

\* C2: once POST /signal/:slaveId/executed has succeeded for (slaveId, id), no
\* later pending list of that slave, computed or returned by a poll, holds a
\* signal with that id.
C2_ConfirmedNeverPending ==
  /\ \A pair \in confirmed : Count(Ids(pendingFor(pair[1])), pair[2]) = 0
  /\ (req.op = OpPending /\ res.success) =>
       \A i \in 1..Len(res.signals) : <<req.slaveId, res.signals[i].id>> \notin confirmed

C2_Witness ==
  /\ req.op = OpPending /\ res.success /\ res.count = 1
  /\ Len(signals) = 2
  /\ \E i \in 1..Len(signals) : <<req.slaveId, signals[i].id>> \in confirmed

\* C3: after a successful submission every slave that has not confirmed the
\* new signal's id finds the new signal exactly once in its pending list.
C3_NewSignalOnce ==
  (req.op = OpSignal /\ res.success) =>
    \A slaveId \in SlaveIds :
      ~wasExecuted(executedBySlave, slaveId, res.signal_id) =>
        Count(Ids(pendingFor(slaveId)), res.signal_id) = 1

\* C4: a confirmation succeeds and leaves its id out of the slave's pending
\* list; confirming a pair that is already confirmed changes neither the Log
\* nor the Tracker, and a further confirmation would change nothing either.
C4_ConfirmIdempotent ==
  [][ (req'.op = OpExecuted /\ ~Falsy(req'.body.signal_id)) =>
        LET c == req'.slaveId
            id == req'.body.signal_id.s
        IN /\ res'.status = 200 /\ res'.success
           /\ Count(Ids(getPendingSignals(signals', executedBySlave', c)), id) = 0
           /\ markAsExecuted(executedBySlave', c, id) = executedBySlave'
           /\ wasExecuted(executedBySlave, c, id) =>
                signals' = signals /\ executedBySlave' = executedBySlave ]_vars

C4_Witness ==
  /\ req.op = OpExecuted /\ res.success
  /\ \E i \in 1..Len(signals) : signals[i].id = req.body.signal_id.s
  /\ \E slaveId \in SlaveIds \ {req.slaveId} : MapHas(executedBySlave, slaveId)
  /\ Cardinality(AckSet(executedBySlave, req.slaveId)) = 2

\* C5: a confirmation by one slave changes neither the confirmed set nor the
\* pending list of any other slave.
C5_Isolation ==
  [][ req'.op = OpExecuted =>
        \A c2 \in SlaveIds \ {req'.slaveId} :
          /\ AckSet(executedBySlave', c2) = AckSet(executedBySlave, c2)
          /\ getPendingSignals(signals', executedBySlave', c2)
               = getPendingSignals(signals, executedBySlave, c2) ]_vars

C5_Witness ==
  /\ req.op = OpExecuted /\ res.success
  /\ \E i \in 1..Len(signals) : signals[i].id = req.body.signal_id.s
  /\ \E c2 \in SlaveIds \ {req.slaveId} :
       /\ MapHas(executedBySlave, c2)
       /\ AckSet(executedBySlave, c2) # AckSet(executedBySlave, req.slaveId)
       /\ Len(pendingFor(c2)) > Len(pendingFor(req.slaveId))

\* C6: the pending list of every slave, computed or returned by a poll, is
\* the Log with some signals left out: it keeps the order of submission.
C6_OrderPreserved ==
  /\ \A slaveId \in SlaveIds : IsSubseq(pendingFor(slaveId), signals)
  /\ (req.op = OpPending /\ res.success) => IsSubseq(res.signals, signals)

C6_Witness ==
  /\ req.op = OpPending /\ res.success
  /\ res.count = 2 /\ res.signals[1] # res.signals[2]
  /\ \E slaveId \in SlaveIds : Len(pendingFor(slaveId)) = 1

CloseWithoutSymbol(body) ==
  /\ body.action = Str(CLOSE)
  /\ ~Falsy(body.master_id) /\ ~Falsy(body.ticket)
  /\ body.symbol = Undef

\* C7 as stated: a CLOSE with a producer id and a ticket but no symbol succeeds,
\* with a signal_id, and its signal is the last of the Log.
C7_CloseWithoutSymbolAccepted ==
  (req.op = OpSignal /\ CloseWithoutSymbol(req.body)) =>
    /\ res.status = 200 /\ res.success /\ res.signal_id # << >>
    /\ signals # << >> /\ signals[Len(signals)].id = res.signal_id

\* C7 as amended: a CLOSE with a producer id and a ticket but no symbol is
\* rejected with 400, success false, and the Log is left as it was.
C7_CloseWithoutSymbolRejected ==
  [][ (req'.op = OpSignal /\ CloseWithoutSymbol(req'.body)) =>
        /\ res'.status = 400 /\ ~res'.success /\ res'.signal_id = << >>
        /\ signals' = signals ]_vars

C7_Witness ==
  /\ req.op = OpSignal /\ CloseWithoutSymbol(req.body)
  /\ res.status = 400
  /\ signals # << >>

\* the submissions the specification's validation rejects
Rejected(body) ==
  \/ body.master_id = Undef \/ body.ticket = Undef \/ body.action = Undef
  \/ body.action \notin {Str(OPEN), Str(CLOSE), Str(MODIFY)}
  \/ /\ body.action \in {Str(OPEN), Str(MODIFY)}
     /\ body.symbol \in {Undef, Str(<< >>)}

\* C8: a submission without producer id, ticket or action, with an unknown
\* action, or with OPEN or MODIFY and no symbol, gets 400 with success false
\* and changes neither the Log nor the Tracker.
C8_InvalidRejected ==
  [][ (req'.op = OpSignal /\ Rejected(req'.body)) =>
        /\ res'.status = 400 /\ ~res'.success
        /\ signals' = signals /\ executedBySlave' = executedBySlave ]_vars

C8_Witness ==
  /\ req.op = OpSignal /\ req.body.action = Str(MODIFY) /\ req.body.symbol = Str(<< >>)
  /\ ~Falsy(req.body.master_id) /\ ~Falsy(req.body.ticket)
  /\ res.status = 400
  /\ signals # << >> /\ DOMAIN executedBySlave = SlaveIds

\* C9: any two records of the Log have different ids.
C9_UniqueIds ==
  \A i, j \in 1..Len(signals) : i # j => signals[i].id # signals[j].id

\* C10: every step leaves the old Log a prefix of the new one; the Log
\* changes only in a successful submission, which appends one record.
C10_AppendOnly ==
  [][ /\ IsPrefix(signals, signals')
      /\ signals' # signals =>
           /\ req'.op = OpSignal /\ res'.success /\ now' = now
           /\ Len(signals') = Len(signals) + 1
           /\ signals'[Len(signals')].id = res'.signal_id
      /\ (now' = now /\ (req'.op # OpSignal \/ ~res'.success)) => signals' = signals
      /\ (now' = now /\ req'.op = OpSignal /\ res'.success) =>
           Len(signals') = Len(signals) + 1 ]_vars

C10_Witness ==
  /\ Len(signals) = 2 /\ signals[1] # signals[2]
  /\ req.op = OpSignal /\ ~res.success

\* C11: in every step each slave's confirmed set keeps all its ids, so a
\* pair once confirmed stays out of the pending list, and every id that
\* enters a set enters it in a successful POST /signal/:slaveId/executed of
\* that slave for that id.
C11_ConfirmationPermanent ==
  [][ \A slaveId \in (DOMAIN executedBySlave) \cup (DOMAIN executedBySlave') :
        /\ AckSet(executedBySlave, slaveId) \subseteq AckSet(executedBySlave', slaveId)
        /\ \A id \in AckSet(executedBySlave, slaveId) :
             Count(Ids(getPendingSignals(signals', executedBySlave', slaveId)), id) = 0
        /\ \A id \in AckSet(executedBySlave', slaveId) \ AckSet(executedBySlave, slaveId) :
             /\ req'.op = OpExecuted /\ res'.success /\ now' = now
             /\ req'.slaveId = slaveId /\ req'.body.signal_id = Str(id)
             /\ <<slaveId, id>> \in confirmed' ]_vars

C11_Witness ==
  /\ \E slaveId \in SlaveIds :
       /\ Cardinality(AckSet(executedBySlave, slaveId)) = 2
       /\ \E i \in 1..Len(signals) : signals[i].id \in AckSet(executedBySlave, slaveId)
  /\ req.op = OpSignal /\ res.success

\* C12: confirming an id that no record of the Log carries succeeds, puts
\* the pair in the Tracker and leaves the Log as it was; every accepted
\* confirmation, of a known, an unknown or an already confirmed id, gets
\* the same response.
C12_UnknownIdAccepted ==
  [][ (req'.op = OpExecuted /\ req'.slaveId # "" /\ ~Falsy(req'.body.signal_id)) =>
        /\ res' = Json(200, TRUE)
        /\ wasExecuted(executedBySlave', req'.slaveId, req'.body.signal_id.s)
        /\ signals' = signals ]_vars

C12_Witness ==
  /\ req.op = OpExecuted /\ res = Json(200, TRUE)
  /\ signals # << >> /\ req.body.signal_id.s \notin LogIds(signals)
  /\ wasExecuted(executedBySlave, req.slaveId, req.body.signal_id.s)
  /\ \E id \in LogIds(signals) : wasExecuted(executedBySlave, req.slaveId, id)

\* the signal ids a slave may send
KnownIds == LogIds(signals) \cup {EarlyId}

\* C13: from every reachable state, two confirmations of one slave give the
\* same Tracker, and so the same pending list for every slave, in either
\* order.
C13_ConfirmationsCommute ==
  \A slaveId \in SlaveIds : \A s1, s2 \in KnownIds :
    LET first == markAsExecuted(markAsExecuted(executedBySlave, slaveId, s1), slaveId, s2)
        second == markAsExecuted(markAsExecuted(executedBySlave, slaveId, s2), slaveId, s1)
    IN /\ first = second
       /\ \A c \in SlaveIds :
            getPendingSignals(signals, first, c) = getPendingSignals(signals, second, c)
       /\ AckSet(first, slaveId) = AckSet(executedBySlave, slaveId) \cup {s1, s2}

C13_Witness ==
  /\ Len(signals) = 2 /\ signals[1].id # signals[2].id
  /\ req.op = OpExecuted /\ res.success /\ req.body.signal_id.s = signals[1].id
  /\ AckSet(executedBySlave, req.slaveId) = {signals[1].id, signals[2].id}
  /\ \E c \in SlaveIds : Len(pendingFor(c)) = 2

\* C14: a valid submission puts its own record at the end of the pending
\* list of every slave that has confirmed nothing, whatever was submitted
\* before it in the same millisecond, and a poll of such a slave returns the
\* whole Log: of two submissions with distinct tickets both records are
\* returned, as often as the Log holds them, in the order in which they were
\* handled.
C14_BothInOrder ==
  [][ /\ (now' = now /\ req'.op = OpSignal /\ res'.success) =>
           \A slaveId \in SlaveIds :
             AckSet(executedBySlave, slaveId) = {} =>
               LET before == getPendingSignals(signals, executedBySlave, slaveId)
                   after == getPendingSignals(signals', executedBySlave', slaveId)
               IN /\ Len(after) = Len(before) + 1
                  /\ SubSeq(after, 1, Len(before)) = before
                  /\ after[Len(after)].id = res'.signal_id
                  /\ after[Len(after)].ticket = ToNumber(req'.body.ticket)
                  /\ after[Len(after)].master_id = ToStr(req'.body.master_id)
      /\ (req'.op = OpPending /\ res'.success
            /\ AckSet(executedBySlave', req'.slaveId) = {}) =>
           /\ res'.signals = signals'
           /\ \A i, j \in 1..Len(signals') :
                (i < j /\ signals'[i].ticket # signals'[j].ticket) =>
                  /\ \E p, q \in 1..Len(res'.signals) :
                       p < q /\ res'.signals[p] = signals'[i] /\ res'.signals[q] = signals'[j]
                  /\ Count(res'.signals, signals'[i]) = Count(signals', signals'[i])
                  /\ Count(res'.signals, signals'[j]) = Count(signals', signals'[j]) ]_vars

C14_Witness ==
  /\ req.op = OpPending /\ res.success /\ res.count = 2
  /\ AckSet(executedBySlave, req.slaveId) = {}
  /\ signals[1].master_id = signals[2].master_id
  /\ signals[1].ticket # signals[2].ticket
  /\ signals[1].created_at = signals[2].created_at
  /\ \E c \in SlaveIds : AckSet(executedBySlave, c) # {}

\* C15: a confirmation without a slave id or without a signal id gets 400
\* with success false and changes neither the Tracker nor the Log.
C15_MalformedConfirmRejected ==
  [][ (req'.op = OpExecuted
         /\ (req'.slaveId = "" \/ req'.body.signal_id \in {Undef, Str(<< >>)})) =>
        /\ res'.status = 400 /\ ~res'.success
        /\ executedBySlave' = executedBySlave /\ signals' = signals ]_vars

C15_Witness ==
  /\ req.op = OpExecuted /\ res.status = 400 /\ ~res.success
  /\ req.slaveId = "" /\ req.body.signal_id.s \in LogIds(signals)
  /\ DOMAIN executedBySlave = SlaveIds

\* the other malformed confirmation answered: a slave id without a signal id
C15_WitnessNoSignalId ==
  /\ req.op = OpExecuted /\ res.status = 400 /\ ~res.success
  /\ req.slaveId \in SlaveIds /\ req.body.signal_id = Undef
  /\ DOMAIN executedBySlave = SlaveIds

\* C16: a slave that has confirmed nothing has the whole Log pending, and
\* each of its polls returns the whole Log, so two polls with no submission
\* between them return the same.
C16_FreshSlaveSeesAll ==
  /\ \A slaveId \in SlaveIds :
       AckSet(executedBySlave, slaveId) = {} => pendingFor(slaveId) = signals
  /\ (req.op = OpPending /\ res.success /\ AckSet(executedBySlave, req.slaveId) = {}) =>
       res.signals = signals /\ res.count = Len(signals)

C16_Witness ==
  /\ req.op = OpPending /\ res.success /\ res.count = 2
  /\ AckSet(executedBySlave, req.slaveId) = {}
  /\ \E c \in SlaveIds : LogIds(signals) \subseteq AckSet(executedBySlave, c)

\* the sequence x without its element at position i
RemoveAt(x, i) == SubSeq(x, 1, i - 1) \o SubSeq(x, i + 1, Len(x))

\* C17: a confirmation of the id of a pending signal removes exactly that
\* one record from the slave's pending list, and no other record of the Log
\* changes between pending and confirmed for that slave.
C17_RemovesExactlyOne ==
  [][ (req'.op = OpExecuted /\ res'.success /\ now' = now) =>
        LET c == req'.slaveId
            id == req'.body.signal_id.s
            before == getPendingSignals(signals, executedBySlave, c)
            after == getPendingSignals(signals', executedBySlave', c)
        IN (\E i \in 1..Len(before) : before[i].id = id) =>
             /\ \E i \in 1..Len(before) : before[i].id = id /\ after = RemoveAt(before, i)
             /\ Len(after) = Len(before) - 1 ]_vars

\* C18: a poll changes neither the Log nor the Tracker, and gives a slave
\* the Tracker does not know no entry in it; what a poll returned is still
\* pending after it.
C18_PollReadOnly ==
  [][ req'.op = OpPending =>
        /\ signals' = signals
        /\ executedBySlave' = executedBySlave
        /\ DOMAIN executedBySlave' = DOMAIN executedBySlave
        /\ res'.success =>
             getPendingSignals(signals', executedBySlave', req'.slaveId) = res'.signals ]_vars

C18_Witness ==
  /\ req.op = OpPending /\ res.success /\ res.count = 2
  /\ req.slaveId \notin DOMAIN executedBySlave
  /\ DOMAIN executedBySlave # {}

\* C19: when the submissions have stopped and a slave keeps polling and
\* confirming what its polls return, its pending list is eventually empty
\* and stays empty.
C19_Drains ==
  \A slaveId \in PollingSlaves :
    <>[](getPendingSignals(signals, executedBySlave, slaveId) = << >>)

C19_Witness ==
  /\ Len(signals) = 2 /\ signals[1].id # signals[2].id
  /\ \A slaveId \in PollingSlaves :
       /\ pendingFor(slaveId) = << >>
       /\ LogIds(signals) \subseteq { pair[2] : pair \in { q \in confirmed : q[1] = slaveId } }
       /\ \A id \in LogIds(signals) : Executed(slaveId, id) >= 1
       /\ \A k \in Sessions : sess[slaveId][k].pc = "idle"

====
